---- MODULE Spec2Model ----
(***************************************************************************)
(* A model of generate_report.py: the command line entry point, load_data, *)
(* calculate_metrics, prepare_chart_data, prepare_table_data and           *)
(* generate_report.                                                        *)
(*                                                                         *)
(* Numbers.  Counts (total_units, preleased, ...) are integers.  An        *)
(* occupancy value is held as an integer number of ten-thousandths:        *)
(* 0.0025 is 25, 1 is 10000 (OccOne), 0.1 is 1000 (Tenth), 82.37 is        *)
(* 823700.  Rounding to one decimal is rounding to a multiple of Tenth.    *)
(* Python's round() and pandas' Series.round() both round an exact tie to  *)
(* the even neighbour; RoundHalfEven does the same on exact quotients.     *)
(* The input values below are chosen so that the IEEE-754 doubles the code *)
(* computes round the same way as the exact quotients do.                  *)
(***************************************************************************)
EXTENDS Integers, Sequences, FiniteSets, TLC

VARIABLES
    pc,          \* position of the run in __main__ / generate_report
    argv,        \* sys.argv[1:]
    files,       \* the paths for which os.path.exists is true
    csv_file,    \* the path __main__ hands to generate_report, or None
    csv,         \* the rows pd.read_csv returned (before the filter)
    source,      \* which branch of load_data produced df
    df,          \* the DataFrame threaded through the pipeline (its rows)
    occ_col,     \* 'occupancy_pct' in df.columns
    metrics,     \* result of calculate_metrics
    charts,      \* result of prepare_chart_data
    table_data,  \* result of prepare_table_data
    output,      \* the file at output_path
    stdout,      \* what has been printed
    error,       \* the exception that ended the run, if any
    steps        \* the operations completed so far, in order

vars == <<pc, argv, files, csv_file, csv, source, df, occ_col, metrics, charts,
          table_data, output, stdout, error, steps>>

----------------------------------------------------------------------------
(* Bounds and representation *)

MaxRows == 2

OccOne == 10000

Tenth == 1000

None == "None"

NoCol == -1

Inf == 2000000000

DefaultCsv == "Pre-Lease - Summary.csv"

LOW_LIMIT == 70

HIGH_LIMIT == 90

Pct(tenths) == tenths * Tenth

----------------------------------------------------------------------------
(* Arithmetic *)

RECURSIVE SumSeq(_)
SumSeq(s) == IF s = <<>> THEN 0 ELSE Head(s) + SumSeq(Tail(s))

Col(rows, f) == [i \in 1..Len(rows) |-> rows[i][f]]

RoundHalfUp(num, den) ==
    LET q == num \div den
        r == num % den
    IN  IF 2 * r >= den THEN q + 1 ELSE q

Truncate(num, den) == num \div den

\* round(x, 1) on x = num/den tenths: nearest integer, an exact tie to the even one
RoundHalfEven(num, den) ==
    LET q == num \div den
        r == num % den
    IN  IF 2 * r < den THEN q
        ELSE IF 2 * r > den THEN q + 1
        ELSE IF q % 2 = 0 THEN q ELSE q + 1

\* round((preleased / total_units) * 100, 1)
PctOf(p, t) == IF t > 0 THEN Pct(RoundHalfEven(p * 1000, t)) ELSE Inf

\* round(occupancy_pct * 100, 1)
ScaleFraction(v) == Pct(RoundHalfEven(v * 100, Tenth))

----------------------------------------------------------------------------
(* Inputs *)

\* unit_type column of the sample table; CSV inputs name their rows the same way
UnitTypes == <<"Studio", "1BR", "1BR+Den", "2BR", "2BR+Den", "3BR">>

Row(u, t, p, a, n, r, o) ==
    [unit_type |-> u, total_units |-> t, preleased |-> p, available |-> a,
     new_leases |-> n, renewals |-> r, occupancy_pct |-> o]

\* The built-in sample table of load_data (no occupancy_pct column)
SampleData ==
    << Row("Studio",   80,  72,  8, 45, 27, NoCol),
       Row("1BR",     150, 120, 30, 70, 50, NoCol),
       Row("1BR+Den", 100,  82, 18, 50, 32, NoCol),
       Row("2BR",     140, 112, 28, 65, 47, NoCol),
       Row("2BR+Den",  80,  60, 20, 35, 25, NoCol),
       Row("3BR",      50,  44,  6, 25, 19, NoCol) >>

\* CSV files without a 'Pre-Leased - %' column: the counts decide the occupancy
TotalUnitsVals == {-1, 0, 10, 16, 400}

PreleasedVals == {1, 7, 9}

AvailableVals == {2}

CountRows(u) ==
    { Row(u, t, p, a, 1, p - 1, NoCol) :
        t \in TotalUnitsVals, p \in PreleasedVals, a \in AvailableVals }

\* CSV files with a 'Pre-Leased - %' column: fractions (0.0025, 0.005, 0.0075,
\* 0.699) and percentages (69.9, 70, 82.37, 89.9, 90)
OccVals == {25, 50, 75, 6990, 699000, 700000, 823700, 899000, 900000}

OccRows(u) ==
    { Row(u, t, 7, 3, 4, 3, o) : t \in {0, 10}, o \in OccVals }

\* tables of n rows, the i-th row named UnitTypes[i]
CountTables(n) ==
    { tbl \in [1..n -> UNION { CountRows(UnitTypes[i]) : i \in 1..n }] :
        \A i \in 1..n : tbl[i] \in CountRows(UnitTypes[i]) }

OccTables(n) ==
    { tbl \in [1..n -> UNION { OccRows(UnitTypes[i]) : i \in 1..n }] :
        \A i \in 1..n : tbl[i] \in OccRows(UnitTypes[i]) }

\* What pd.read_csv can return after the rename: up to MaxRows rows
CsvTables ==
    UNION { CountTables(n) \cup OccTables(n) : n \in 0..MaxRows }

ArgvVals == { <<>>, <<"--sample">>, <<"data.csv">> }

FilesVals == { {}, {"data.csv"}, {DefaultCsv}, {"--sample", "data.csv", DefaultCsv} }

NoMetrics ==
    [total_units |-> 0, total_preleased |-> 0, total_available |-> 0,
     overall_occupancy |-> 0]

NoCharts ==
    [occupancy_chart |-> [labels |-> <<>>, values |-> <<>>],
     donut_chart |-> [labels |-> <<>>, values |-> <<>>],
     stacked_chart |-> [labels |-> <<>>, new_leases |-> <<>>, renewals |-> <<>>],
     availability_chart |-> [labels |-> <<>>, preleased |-> <<>>, available |-> <<>>]]

Init ==
    /\ pc = "main"
    /\ argv \in ArgvVals
    /\ files \in FilesVals
    /\ csv_file = None
    /\ csv = <<>>
    /\ source = "none"
    /\ df = <<>>
    /\ occ_col = FALSE
    /\ metrics = NoMetrics
    /\ charts = NoCharts
    /\ table_data = <<>>
    /\ output \in {"absent", "old"}
    /\ stdout = <<>>
    /\ error = "none"
    /\ steps = <<>>

----------------------------------------------------------------------------
(* __main__ and load_data *)

\* __main__ without the --sample branch
ChooseCsvFileNoSampleFlag(args, existing) ==
    IF Len(args) > 0 THEN args[1]
    ELSE IF DefaultCsv \in existing THEN DefaultCsv ELSE None

\* The csv_file __main__ computes from sys.argv
ChooseCsvFile(args, existing) ==
    IF Len(args) > 0
    THEN IF args[1] = "--sample" THEN None ELSE args[1]
    ELSE IF DefaultCsv \in existing THEN DefaultCsv ELSE None

Main ==
    /\ pc = "main"
    /\ csv_file' = ChooseCsvFile(argv, files)
    /\ pc' = "load"
    /\ steps' = Append(steps, "main")
    /\ UNCHANGED <<argv, files, csv, source, df, occ_col, metrics, charts,
                   table_data, output, stdout, error>>

\* csv_path and os.path.exists(csv_path)
UsesCsv(path, existing) == path # None /\ path # "" /\ path \in existing

\* a filter that drops only the rows with exactly 0 units
KeepRowNonZero(row) == row.total_units # 0

\* df['total_units'] > 0
KeepRow(row) == row.total_units > 0

\* df[df['total_units'] > 0]
RECURSIVE FilterRows(_)
FilterRows(rows) ==
    IF rows = <<>> THEN <<>>
    ELSE IF KeepRow(Head(rows)) THEN <<Head(rows)>> \o FilterRows(Tail(rows))
         ELSE FilterRows(Tail(rows))

HasOccColumn(rows) == rows # <<>> /\ rows[1].occupancy_pct # NoCol

LoadCsv ==
    /\ pc = "load"
    /\ UsesCsv(csv_file, files)
    /\ \E raw \in CsvTables :
         /\ csv' = raw
         /\ df' = FilterRows(raw)
         /\ occ_col' = HasOccColumn(raw)
    /\ source' = "csv"
    /\ pc' = "metrics"
    /\ steps' = Append(steps, "load")
    /\ UNCHANGED <<argv, files, csv_file, metrics, charts, table_data, output,
                   stdout, error>>

\* pd.read_csv or the column lookup raises on a malformed file
LoadCsvFails ==
    /\ pc = "load"
    /\ UsesCsv(csv_file, files)
    /\ error' = "parse"
    /\ pc' = "failed"
    /\ UNCHANGED <<argv, files, csv_file, csv, source, df, occ_col, metrics,
                   charts, table_data, output, stdout, steps>>

LoadSample ==
    /\ pc = "load"
    /\ ~UsesCsv(csv_file, files)
    /\ stdout' = Append(stdout, "CSV not found. Using sample data for demonstration.")
    /\ df' = SampleData
    /\ occ_col' = FALSE
    /\ source' = "sample"
    /\ pc' = "metrics"
    /\ steps' = Append(steps, "load")
    /\ UNCHANGED <<argv, files, csv_file, csv, metrics, charts, table_data,
                   output, error>>

----------------------------------------------------------------------------
(* calculate_metrics *)

OverallOccupancyTruncated(p, t) == IF t > 0 THEN Pct(Truncate(p * 1000, t)) ELSE 0

\* round((total_preleased / total_units) * 100, 1) if total_units > 0 else 0
OverallOccupancy(p, t) == IF t > 0 THEN Pct(RoundHalfEven(p * 1000, t)) ELSE 0

\* calculate_metrics without the "* 100"
CalculateMetricsOfNoPercent(rows) ==
    LET total_units     == SumSeq(Col(rows, "total_units"))
        total_preleased == SumSeq(Col(rows, "preleased"))
        total_available == SumSeq(Col(rows, "available"))
    IN  [total_units       |-> total_units,
         total_preleased   |-> total_preleased,
         total_available   |-> total_available,
         overall_occupancy |-> OverallOccupancy(total_preleased, total_units * 100)]

CalculateMetricsOf(rows) ==
    LET total_units     == SumSeq(Col(rows, "total_units"))
        total_preleased == SumSeq(Col(rows, "preleased"))
        total_available == SumSeq(Col(rows, "available"))
    IN  [total_units       |-> total_units,
         total_preleased   |-> total_preleased,
         total_available   |-> total_available,
         overall_occupancy |-> OverallOccupancy(total_preleased, total_units)]

CalculateMetrics ==
    /\ pc = "metrics"
    /\ metrics' = CalculateMetricsOf(df)
    /\ pc' = "charts"
    /\ steps' = Append(steps, "metrics")
    /\ UNCHANGED <<argv, files, csv_file, csv, source, df, occ_col, charts,
                   table_data, output, stdout, error>>

----------------------------------------------------------------------------
(* The occupancy_pct step shared by prepare_chart_data and prepare_table_data *)

\* df['occupancy_pct'].max() <= 1  (the max of an empty column is NaN: False)
MaxAtMostOne(rows) ==
    /\ rows # <<>>
    /\ \A i \in 1..Len(rows) : rows[i].occupancy_pct <= OccOne

\* The occupancy_pct column after the if/else at the head of either function
ResolveOccupancy(rows, has_col) ==
    IF ~has_col
    THEN [i \in 1..Len(rows) |->
            [rows[i] EXCEPT !.occupancy_pct = PctOf(rows[i].preleased, rows[i].total_units)]]
    ELSE IF MaxAtMostOne(rows)
         THEN [i \in 1..Len(rows) |->
                 [rows[i] EXCEPT !.occupancy_pct = ScaleFraction(rows[i].occupancy_pct)]]
         ELSE rows

----------------------------------------------------------------------------
(* prepare_chart_data *)

IsNonDecreasing(rows, perm) ==
    \A i, j \in 1..Len(rows) :
        i < j => rows[perm[i]].occupancy_pct <= rows[perm[j]].occupancy_pct

IsNonIncreasing(rows, perm) ==
    \A i, j \in 1..Len(rows) :
        i < j => rows[perm[i]].occupancy_pct >= rows[perm[j]].occupancy_pct

SortedOrdersDescending(rows) ==
    { perm \in Permutations(1..Len(rows)) : IsNonIncreasing(rows, perm) }

\* The row orders df.sort_values('occupancy_pct', ascending=True) can return.
\* Its default kind is 'quicksort', which does not promise to keep rows of equal
\* occupancy_pct in their original order: every ascending order is an outcome.
SortedOrders(rows) ==
    { perm \in Permutations(1..Len(rows)) : IsNonDecreasing(rows, perm) }

ChartsOf(rows, perm) ==
    [occupancy_chart |->
        [labels |-> [i \in 1..Len(rows) |-> rows[perm[i]].unit_type],
         values |-> [i \in 1..Len(rows) |-> rows[perm[i]].occupancy_pct]],
     donut_chart |->
        [labels |-> <<"New Leases", "Renewals", "Available">>,
         values |-> << SumSeq(Col(rows, "new_leases")),
                       SumSeq(Col(rows, "renewals")),
                       SumSeq(Col(rows, "available")) >>],
     stacked_chart |->
        [labels     |-> Col(rows, "unit_type"),
         new_leases |-> Col(rows, "new_leases"),
         renewals   |-> Col(rows, "renewals")],
     availability_chart |->
        [labels    |-> Col(rows, "unit_type"),
         preleased |-> Col(rows, "preleased"),
         available |-> Col(rows, "available")]]

PrepareChartData ==
    /\ pc = "charts"
    /\ LET resolved == ResolveOccupancy(df, occ_col)
       IN  /\ df' = resolved
           /\ occ_col' = TRUE
           /\ \E perm \in SortedOrders(resolved) : charts' = ChartsOf(resolved, perm)
    /\ pc' = "table"
    /\ steps' = Append(steps, "charts")
    /\ UNCHANGED <<argv, files, csv_file, csv, source, metrics, table_data,
                   output, stdout, error>>

----------------------------------------------------------------------------
(* prepare_table_data *)

OccClassInclusive(occ) ==
    IF occ <= LOW_LIMIT * OccOne THEN "occupancy-low"
    ELSE IF occ <= HIGH_LIMIT * OccOne THEN "occupancy-mid"
    ELSE "occupancy-high"

\* the if/elif/else on occ
OccClass(occ) ==
    IF occ < LOW_LIMIT * OccOne THEN "occupancy-low"
    ELSE IF occ < HIGH_LIMIT * OccOne THEN "occupancy-mid"
    ELSE "occupancy-high"

TableRow(row) ==
    [unit_type       |-> row.unit_type,
     total_units     |-> row.total_units,
     preleased       |-> row.preleased,
     available       |-> row.available,
     new_leases      |-> row.new_leases,
     renewals        |-> row.renewals,
     occupancy       |-> row.occupancy_pct,
     occupancy_class |-> OccClass(row.occupancy_pct)]

PrepareTableData ==
    /\ pc = "table"
    /\ LET resolved == ResolveOccupancy(df, occ_col)
       IN  /\ df' = resolved
           /\ occ_col' = TRUE
           /\ table_data' = [i \in 1..Len(resolved) |-> TableRow(resolved[i])]
    /\ pc' = "template"
    /\ steps' = Append(steps, "table")
    /\ UNCHANGED <<argv, files, csv_file, csv, source, metrics, charts, output,
                   stdout, error>>

----------------------------------------------------------------------------
(* generate_report: template, render, write, summary *)

\* env.get_template('report.html') finds and compiles the template
GetTemplate ==
    /\ pc = "template"
    /\ pc' = "render"
    /\ steps' = Append(steps, "template")
    /\ UNCHANGED <<argv, files, csv_file, csv, source, df, occ_col, metrics,
                   charts, table_data, output, stdout, error>>

\* the template is missing or malformed: TemplateNotFound / TemplateSyntaxError
GetTemplateFails ==
    /\ pc = "template"
    /\ error' = "template"
    /\ pc' = "failed"
    /\ UNCHANGED <<argv, files, csv_file, csv, source, df, occ_col, metrics,
                   charts, table_data, output, stdout, steps>>

Render ==
    /\ pc = "render"
    /\ pc' = "write"
    /\ steps' = Append(steps, "render")
    /\ UNCHANGED <<argv, files, csv_file, csv, source, df, occ_col, metrics,
                   charts, table_data, output, stdout, error>>

\* template.render raises (an error inside the template)
RenderFails ==
    /\ pc = "render"
    /\ error' = "template"
    /\ pc' = "failed"
    /\ UNCHANGED <<argv, files, csv_file, csv, source, df, occ_col, metrics,
                   charts, table_data, output, stdout, steps>>

WriteGuardEarly == pc \in {"template", "write"}

\* output_file.write_text(html_content) is reached after template.render returns
WriteGuard == pc = "write"

WriteOutput ==
    /\ WriteGuard
    /\ output' = "report"
    /\ pc' = "print"
    /\ steps' = Append(steps, "write")
    /\ UNCHANGED <<argv, files, csv_file, csv, source, df, occ_col, metrics,
                   charts, table_data, stdout, error>>

\* write_text raises: the file could not be opened (left as it was), or it was
\* opened, which truncates it, and the write failed
WriteOutputFails ==
    /\ WriteGuard
    /\ output' \in {output, "partial"}
    /\ error' = "write"
    /\ pc' = "failed"
    /\ UNCHANGED <<argv, files, csv_file, csv, source, df, occ_col, metrics,
                   charts, table_data, stdout, steps>>

PrintSummary ==
    /\ pc = "print"
    /\ stdout' = Append(stdout, "Report generated")
    /\ pc' = "done"
    /\ steps' = Append(steps, "print")
    /\ UNCHANGED <<argv, files, csv_file, csv, source, df, occ_col, metrics,
                   charts, table_data, output, error>>

Next ==
    \/ Main
    \/ LoadCsv
    \/ LoadCsvFails
    \/ LoadSample
    \/ CalculateMetrics
    \/ PrepareChartData
    \/ PrepareTableData
    \/ GetTemplate
    \/ GetTemplateFails
    \/ Render
    \/ RenderFails
    \/ WriteOutput
    \/ WriteOutputFails
    \/ PrintSummary

Spec == Init /\ [][Next]_vars

----------------------------------------------------------------------------
(* Vocabulary of the properties *)

Did(step) == \E i \in 1..Len(steps) : steps[i] = step

Abs(x) == IF x < 0 THEN -x ELSE x

Range(s) == { s[i] : i \in 1..Len(s) }

RECURSIVE SumOver(_, _, _)
SumOver(S, rows, f) ==
    IF S = {} THEN 0
    ELSE LET i == CHOOSE x \in S : TRUE
         IN  rows[i][f] + SumOver(S \ {i}, rows, f)

\* the rows of the CSV file that have a positive unit count, and the others
GoodIdx == { i \in 1..Len(csv) : csv[i].total_units > 0 }

BadTypes == { csv[i].unit_type : i \in (1..Len(csv)) \ GoodIdx }

\* the occupancy_chart value reported for a unit type
ChartValue(u) ==
    LET oc == charts.occupancy_chart
    IN  oc.values[CHOOSE i \in 1..Len(oc.labels) : oc.labels[i] = u]

\* the row of the loaded table (before any occupancy_pct step) named u
InputRow(u) ==
    LET rows == IF source = "sample" THEN SampleData ELSE csv
    IN  rows[CHOOSE i \in 1..Len(rows) : rows[i].unit_type = u]

InputHasOcc == source = "csv" /\ HasOccColumn(csv)

\* every input occupancy_pct value of the table is <= 1
InputAllAtMostOne == \A i \in 1..Len(df) : InputRow(df[i].unit_type).occupancy_pct <= 10000

\* num/den (in tenths) lies exactly halfway between two one-decimal values
IsTie(num, den) == den > 0 /\ 2 * (num % den) = den

NearestTenth(v) == ((v + 500) \div 1000) * 1000

----------------------------------------------------------------------------
(* C1 *)

\* C1: once calculate_metrics has run, overall_occupancy is a one-decimal value
\* nearest to sum(preleased) / sum(total_units) * 100 when sum(total_units) > 0,
\* and is 0 when sum(total_units) = 0; the three totals are the column sums.
C1_OverallOccupancy ==
    Did("metrics") =>
        LET t == SumOver(1..Len(df), df, "total_units")
            p == SumOver(1..Len(df), df, "preleased")
            k == metrics.overall_occupancy \div 1000
        IN  /\ metrics.total_units = t
            /\ metrics.total_preleased = p
            /\ t > 0 => /\ metrics.overall_occupancy = k * 1000
                        /\ 2 * Abs(k * t - 1000 * p) <= t
            /\ t = 0 => metrics.overall_occupancy = 0

\* a 10-unit row and a 16-unit row with 1 and 7 preleased: 8/26 = 30.769..% -> 30.8
C1_Witness ==
    /\ Did("metrics")
    /\ metrics.total_units = 26
    /\ metrics.total_preleased = 8
    /\ metrics.overall_occupancy = 308000

----------------------------------------------------------------------------
(* C2 *)

\* C2: no row with total_units <= 0 contributes to a derived output: the metrics
\* and the donut values are sums over the rows with total_units > 0 only, and the
\* labels of the charts and the rows of the table are those rows only.
C2_NoNonPositiveRows ==
    /\ (source = "csv" /\ Did("metrics")) =>
          /\ metrics.total_units = SumOver(GoodIdx, csv, "total_units")
          /\ metrics.total_preleased = SumOver(GoodIdx, csv, "preleased")
          /\ metrics.total_available = SumOver(GoodIdx, csv, "available")
    /\ (source = "csv" /\ Did("charts")) =>
          /\ Range(charts.occupancy_chart.labels) \cap BadTypes = {}
          /\ Range(charts.stacked_chart.labels) \cap BadTypes = {}
          /\ Range(charts.availability_chart.labels) \cap BadTypes = {}
          /\ Len(charts.occupancy_chart.labels) = Cardinality(GoodIdx)
          /\ Len(charts.occupancy_chart.values) = Cardinality(GoodIdx)
          /\ Len(charts.stacked_chart.labels) = Cardinality(GoodIdx)
          /\ Len(charts.availability_chart.labels) = Cardinality(GoodIdx)
          /\ charts.donut_chart.values =
                << SumOver(GoodIdx, csv, "new_leases"),
                   SumOver(GoodIdx, csv, "renewals"),
                   SumOver(GoodIdx, csv, "available") >>
    /\ (source = "csv" /\ Did("table")) =>
          /\ Len(table_data) = Cardinality(GoodIdx)
          /\ \A i \in 1..Len(table_data) : table_data[i].unit_type \notin BadTypes
    /\ \A i \in 1..Len(table_data) : table_data[i].total_units > 0
    /\ \A i \in 1..Len(df) : df[i].total_units > 0

\* a finished run on a CSV file whose first row has -1 units and whose second has 10
C2_Witness ==
    /\ pc = "done"
    /\ source = "csv"
    /\ Len(csv) = 2
    /\ csv[1].total_units = -1
    /\ csv[2].total_units = 10
    /\ Len(table_data) = 1
    /\ table_data[1].unit_type = csv[2].unit_type

----------------------------------------------------------------------------
(* C3 and C9 *)

\* C3: over a full run on a table with an occupancy_pct column: if every input
\* value is <= 1, every occupancy_chart value and every table row's occupancy is
\* the row's input value times 100 rounded to one decimal; if some input value is
\* > 1, each is the input value (as given, or rounded to one decimal).
C3_FractionDetection ==
    (Did("table") /\ InputHasOcc) =>
        \A i \in 1..Len(table_data) :
            LET u  == table_data[i].unit_type
                v  == InputRow(u).occupancy_pct
                ok == IF InputAllAtMostOne
                      THEN { ((v * 100 + 500) \div 1000) * 1000,
                             ((v * 100 + 499) \div 1000) * 1000 }
                      ELSE { v, NearestTenth(v) }
            IN  /\ ChartValue(u) \in ok
                /\ table_data[i].occupancy \in ok

\* C9: once prepare_table_data has run after prepare_chart_data on the same
\* table, each table row's occupancy equals the occupancy_chart value of the
\* same unit type.
C9_TableMatchesChart ==
    Did("table") =>
        \A i \in 1..Len(table_data) :
            table_data[i].occupancy = ChartValue(table_data[i].unit_type)

----------------------------------------------------------------------------
(* C4 *)

\* C4: every table row has exactly one of the three classes: occupancy-low
\* exactly when its occupancy is < 70, occupancy-mid exactly when
\* 70 <= occupancy < 90, occupancy-high exactly when occupancy >= 90.
C4_OccupancyClass ==
    \A i \in 1..Len(table_data) :
        LET occ == table_data[i].occupancy
            cls == table_data[i].occupancy_class
        IN  /\ cls \in {"occupancy-low", "occupancy-mid", "occupancy-high"}
            /\ cls = "occupancy-low" <=> occ < 700000
            /\ cls = "occupancy-mid" <=> (700000 <= occ /\ occ < 900000)
            /\ cls = "occupancy-high" <=> occ >= 900000

\* a table with a 69.9 row (low) and a 70.0 row (mid)
C4_Witness ==
    /\ Did("table")
    /\ \E i, j \in 1..Len(table_data) :
          /\ table_data[i].occupancy = 699000
          /\ table_data[i].occupancy_class = "occupancy-low"
          /\ table_data[j].occupancy = 700000
          /\ table_data[j].occupancy_class = "occupancy-mid"

----------------------------------------------------------------------------
(* C5 *)

\* position of the row named u in the table
RowIndex(u) == CHOOSE i \in 1..Len(df) : df[i].unit_type = u

\* labels are a permutation of the unit types, values are non-decreasing, and
\* values[i] is the occupancy_pct of the row named by labels[i]
ChartIsSortedPermutation ==
    LET oc == charts.occupancy_chart
    IN  /\ Len(oc.labels) = Len(df)
        /\ Len(oc.values) = Len(df)
        /\ Range(oc.labels) = { df[i].unit_type : i \in 1..Len(df) }
        /\ \A i, j \in 1..Len(oc.values) : i < j => oc.values[i] <= oc.values[j]
        /\ \A i \in 1..Len(oc.labels) :
              oc.values[i] = df[RowIndex(oc.labels[i])].occupancy_pct

\* rows of equal occupancy_pct keep their original relative order
ChartKeepsTieOrder ==
    LET oc == charts.occupancy_chart
    IN  \A i, j \in 1..Len(oc.labels) :
            (i < j /\ oc.values[i] = oc.values[j])
                => RowIndex(oc.labels[i]) < RowIndex(oc.labels[j])

\* C5 as stated: the occupancy_chart is the stable ascending sort of the table.
C5_StableSort ==
    (pc = "table") => (ChartIsSortedPermutation /\ ChartKeepsTieOrder)

\* C5 amended: the occupancy_chart labels are a permutation of the table's unit
\* types, the values are non-decreasing, and values[i] is the occupancy_pct of the
\* row named by labels[i]; nothing is promised about rows of equal occupancy_pct.
C5_SortedPermutation ==
    (pc = "table") => ChartIsSortedPermutation

\* a two-row table whose second row has the smaller occupancy: the chart swaps them
C5_Witness ==
    /\ pc = "table"
    /\ Len(df) = 2
    /\ df[2].occupancy_pct < df[1].occupancy_pct
    /\ charts.occupancy_chart.labels = <<df[2].unit_type, df[1].unit_type>>

----------------------------------------------------------------------------
(* C6 *)

\* the command lines and file systems for which the claim promises sample data
SampleCase ==
    \/ (Len(argv) > 0 /\ argv[1] = "--sample")
    \/ (Len(argv) > 0 /\ argv[1] \notin files)
    \/ (Len(argv) = 0 /\ "Pre-Lease - Summary.csv" \notin files)

\* C6: when the first argument is --sample, or names a path that does not exist,
\* or there is no argument and the default file is absent, load_data raises
\* nothing and the table fed to the pipeline is the sample table, so the metrics
\* and the table rows are those of the sample.
C6_SampleSelection ==
    SampleCase =>
        /\ error # "parse"
        /\ Did("load") =>
              /\ source = "sample"
              /\ csv = <<>>
              /\ Len(df) = 6
              /\ \A i \in 1..Len(df) :
                    [df[i] EXCEPT !.occupancy_pct = -1] = SampleData[i]
        /\ Did("metrics") => metrics.total_units = 600
        /\ Did("table") =>
              [i \in 1..Len(table_data) |-> table_data[i].unit_type] = UnitTypes

\* --sample given while files named --sample, data.csv and the default all exist
C6_Witness ==
    /\ argv = <<"--sample">>
    /\ "--sample" \in files
    /\ "Pre-Lease - Summary.csv" \in files
    /\ pc = "done"
    /\ source = "sample"

----------------------------------------------------------------------------
(* C7 *)

----------------------------------------------------------------------------
(* C8 *)

\* the one-decimal value below num/den tenths
LowerTenth(num, den) == (num \div den) * 1000

\* what the rounding sites computed, as <<result, num, den>> with the exact
\* percentage being num/den tenths: overall_occupancy, and each occupancy_chart
\* value that prepare_chart_data computed from the counts or from a fraction
RoundingSites ==
    (IF Did("metrics") /\ metrics.total_units > 0
     THEN { <<metrics.overall_occupancy, metrics.total_preleased * 1000,
              metrics.total_units>> }
     ELSE {})
    \cup
    (IF Did("charts") /\ ~InputHasOcc
     THEN { <<ChartValue(df[i].unit_type), df[i].preleased * 1000, df[i].total_units>> :
              i \in 1..Len(df) }
     ELSE {})
    \cup
    (IF Did("charts") /\ InputHasOcc /\ InputAllAtMostOne
     THEN { <<ChartValue(df[i].unit_type),
              InputRow(df[i].unit_type).occupancy_pct * 100, 1000>> :
              i \in 1..Len(df) }
     ELSE {})

\* C8 as stated: a percentage exactly halfway between two one-decimal values is
\* rounded to the upper one.
C8_RoundHalfUp ==
    \A site \in RoundingSites :
        IsTie(site[2], site[3]) => site[1] = LowerTenth(site[2], site[3]) + 1000

\* C8 amended: a percentage exactly halfway between two one-decimal values is
\* rounded to the neighbour whose last digit is even (0.25 -> 0.2, 0.75 -> 0.8):
\* the lower one whenever the lower one is even.
C8_RoundHalfEven ==
    \A site \in RoundingSites :
        IsTie(site[2], site[3]) =>
            /\ site[1] \in { LowerTenth(site[2], site[3]),
                             LowerTenth(site[2], site[3]) + 1000 }
            /\ (site[1] \div 1000) % 2 = 0

\* preleased = 1 of total_units = 400: 0.25 becomes 0.2 in the metrics and the chart
C8_Witness ==
    /\ Did("charts")
    /\ metrics.total_units = 400
    /\ metrics.total_preleased = 1
    /\ metrics.overall_occupancy = 2000
    /\ charts.occupancy_chart.values = <<2000>>

----------------------------------------------------------------------------
(* C10 *)

Summary == "Report generated"

BeforeWrite == <<"main", "load", "metrics", "charts", "table", "template", "render">>

OrderOk ==
    /\ output \in {"report", "partial"} =>
          (Len(steps) >= 7 /\ SubSeq(steps, 1, 7) = BeforeWrite)
    /\ Did("write") => output = "report"
    /\ Summary \in Range(stdout) =>
          (output = "report" /\ steps = BeforeWrite \o <<"write", "print">>)
    /\ error \in {"parse", "template"} =>
          (output \in {"absent", "old"} /\ Summary \notin Range(stdout) /\ ~Did("write"))
    /\ \A i, j \in 1..Len(steps) : steps[i] = steps[j] => i = j

\* C10: the output file is written only after load, metrics, charts, table,
\* template and render have completed, and the summary is printed only after the
\* write; a run that fails in an earlier step leaves the output path as it was
\* and prints no summary; no step runs twice and a failed run takes no more steps.
C10_WriteLast ==
    /\ []OrderOk
    /\ [][ /\ (pc = "failed" => pc' = "failed")
           /\ (error' \in {"parse", "template"} => output' = output)
           /\ (output' # output => (pc = "write" /\ steps = BeforeWrite)) ]_vars

\* a run that found no template while an older report existed
C10_Witness ==
    /\ pc = "failed"
    /\ error = "template"
    /\ output = "old"
    /\ steps = <<"main", "load", "metrics", "charts", "table">>
    /\ Summary \notin Range(stdout)

====
